---- MODULE Spec2Model ----
(***************************************************************************)
(* Model of src/src/components/GetUserAudio.tsx: the audio capture         *)
(* component (CaptureAudioGeneric, instantiated as MicAudioButton and      *)
(* DesktopAudioButton), its chunk buffer, the transcription merge on the   *)
(* module-level variables and the summary dispatch to the editor.          *)
(*                                                                         *)
(* Texts are sequences of one-character strings so that slice() and trim() *)
(* are computed as JavaScript computes them.                               *)
(***************************************************************************)
EXTENDS Integers, Sequences, FiniteSets, TLC

\* ------------------------------------------------------------------ bounds
MaxStarts == 2      \* clicks on a "Start ... Capture" button, process-wide
MaxChunks == 3      \* dataavailable events, process-wide

\* --------------------------------------------------------------- constants
Sources == {"Microphone", "Desktop"}

\* ------------------------------------------------------------ text helpers
Hello == <<"H", "e", "l", "l", "o">>
World == <<"w", "o", "r", "l", "d">>
Again == <<"a", "g", "a", "i", "n">>
Dear  == <<"D", "e", "a", "r">>
All   == <<"a", "l", "l">>
Space == <<" ">>

IsWhite(ch) == ch = " "

RECURSIVE TrimStart(_)
TrimStart(t) ==
    IF t = <<>> THEN <<>>
    ELSE IF IsWhite(Head(t)) THEN TrimStart(Tail(t)) ELSE t

RECURSIVE TrimEnd(_)
TrimEnd(t) ==
    IF t = <<>> THEN <<>>
    ELSE IF IsWhite(t[Len(t)]) THEN TrimEnd(SubSeq(t, 1, Len(t) - 1)) ELSE t

\* String.prototype.trim()
Trim(t) == TrimEnd(TrimStart(t))

\* text.slice(from, text.length) for from >= 0
Slice(t, from) == IF from >= Len(t) THEN <<>> ELSE SubSeq(t, from + 1, Len(t))

\* ------------------------------------------------- the transcription service
\* What is said into each source, one word per recording interval.
Vocabulary(s) ==
    IF s = "Microphone" THEN <<Hello, World, Again>> ELSE <<Dear, All, Again>>

Word(s, k) == Vocabulary(s)[((k - 1) % Len(Vocabulary(s))) + 1]

\* The words of the first k intervals of source s, separated by spaces: the
\* prefix-stable growing output of the service for header + k-th chunk.
RECURSIVE Script(_, _)
Script(s, k) ==
    IF k <= 1 THEN Word(s, 1) ELSE Script(s, k - 1) \o Space \o Word(s, k)

\* transcribe(blob): the service decodes header + latest chunk, i.e. all audio
\* of the newest chunk's recorder up to that chunk, and returns its words.
Latest(blob) == blob[Len(blob)]

Transcriptions(blob) ==
    LET c == Latest(blob)
    IN  {Script(c.src, c.k)}

\* summarize(text): the summary is identified by the text it was computed from.
SummaryOf(text) == <<"summary">> \o text

\* ------------------------------------------------------------------- state
VARIABLES
    firstString,            \* module-level: let firstString = ""
    transcriptionText,      \* module-level: let transcriptionText = ""
    transcriptionIteration, \* module-level: let transcriptionIteration = 0
    mediaRecorder,          \* per component: useState<MediaRecorder | null>
    mediaStream,            \* per component: useState<MediaStream | null>
    chunks,                 \* the `chunks` array of each render's closure
    opens,                  \* captureAudio() invocations (getMediaStream calls)
    captures,               \* every stream opened, with the recorder made on it
    calls,                  \* audioBackend.transcribe() calls, in issue order
    summaries,              \* audioBackend.summarize() calls, in issue order
    editorContent,          \* props.editorRef.current content
    console,                \* the errors console.log(err) has printed
    uncaught                \* errors no handler caught

vars == <<firstString, transcriptionText, transcriptionIteration, mediaRecorder,
          mediaStream, chunks, opens, captures, calls, summaries, editorContent,
          console, uncaught>>

transcript == <<firstString, transcriptionText, transcriptionIteration>>

Null == 0

\* The component re-renders when setMediaStream/setMediaRecorder store a new
\* object, i.e. once per opened stream; each render declares a fresh `chunks`.
Render(s) == Cardinality({c \in 1..Len(captures) : captures[c].src = s})

ArrayIds == Sources \X (0..MaxStarts)

Init ==
    /\ firstString = <<>>
    /\ transcriptionText = <<>>
    /\ transcriptionIteration = 0
    /\ mediaRecorder = [s \in Sources |-> Null]
    /\ mediaStream = [s \in Sources |-> Null]
    /\ chunks = [a \in ArrayIds |-> <<>>]
    /\ opens = <<>>
    /\ captures = <<>>
    /\ calls = <<>>
    /\ summaries = <<>>
    /\ editorContent = <<>>
    /\ console = {}
    /\ uncaught = {}

\* ------------------------------------------------------------ captureAudio
\* Click on "Start <captureFrom> Capture": captureAudio runs up to the await.
StartClick(s) ==
    /\ Len(opens) < MaxStarts
    /\ opens' = Append(opens, [src |-> s, gen |-> Render(s),
                               status |-> "pending", promise |-> "pending"])
    /\ UNCHANGED <<firstString, transcriptionText, transcriptionIteration,
                   mediaRecorder, mediaStream, chunks, captures, calls,
                   summaries, editorContent, console, uncaught>>

\* getUserMedia({audio}) / getDisplayMedia({audio: true, video: true})
OpenStream(s) ==
    [video |-> IF s = "Desktop" THEN "live" ELSE "none", audio |-> "live"]

\* track.stop()
StopTrack(t) == IF t = "live" THEN "ended" ELSE t

\* mediaStream.getVideoTracks().forEach(track => track.stop())
StopVideoTracks(stream) == [stream EXCEPT !.video = StopTrack(@)]

\* The Desktop branch without its getVideoTracks() line.
PrepareStreamKeepsVideo(s) == OpenStream(s)

\* The stream as captureAudio hands it to new MediaRecorder(mediaStream).
PrepareStream(s) ==
    IF s = "Desktop" THEN StopVideoTracks(OpenStream(s)) ELSE OpenStream(s)

\* The await resolved: the rest of the try block runs to recorder.start().
OpenResolve(i) ==
    /\ i \in 1..Len(opens)
    /\ opens[i].status = "pending"
    /\ LET s == opens[i].src
           stream == PrepareStream(s)
           id == Len(captures) + 1
       IN  /\ captures' = Append(captures,
                  [src |-> s, arr |-> opens[i].gen, video |-> stream.video,
                   audio |-> stream.audio, onended |-> (s = "Desktop"),
                   state |-> "recording", emitted |-> 0])
           /\ mediaStream' = [mediaStream EXCEPT ![s] = id]
           /\ mediaRecorder' = [mediaRecorder EXCEPT ![s] = id]
    /\ opens' = [opens EXCEPT ![i].status = "resolved", ![i].promise = "fulfilled"]
    /\ UNCHANGED <<firstString, transcriptionText, transcriptionIteration,
                   chunks, calls, summaries, editorContent, console, uncaught>>

\* catch (err) { console.log(err) }: what is printed and how captureAudio's
\* own promise settles.
CatchRethrows(con, err) == [console |-> con, promise |-> "rejected"]

Catch(con, err) == [console |-> con \cup {err}, promise |-> "fulfilled"]

\* The await rejected (permission denied, no device): control goes to catch.
OpenReject(i) ==
    /\ i \in 1..Len(opens)
    /\ opens[i].status = "pending"
    /\ LET out == Catch(console, "DeviceUnavailable")
       IN  /\ console' = out.console
           /\ opens' = [opens EXCEPT ![i].status = "rejected",
                                     ![i].promise = out.promise]
    /\ UNCHANGED <<firstString, transcriptionText, transcriptionIteration,
                   mediaRecorder, mediaStream, chunks, captures, calls,
                   summaries, editorContent, uncaught>>

\* ------------------------------------------------- recorder.ondataavailable
Emitted == LET RECURSIVE Sum(_)
               Sum(n) == IF n = 0 THEN 0 ELSE captures[n].emitted + Sum(n - 1)
           IN  Sum(Len(captures))

\* The buffer without the pop: every chunk is kept.
PushChunkKeepsAll(old, data) == Append(old, data)

\* The buffer with shift() in place of pop(): the oldest chunk is dropped.
PushChunkDropsHeader(old, data) ==
    Append(IF Len(old) > 1 THEN Tail(old) ELSE old, data)

\* if (chunks.length > 1) { chunks.pop(); }  chunks.push(e.data);
PushChunk(old, data) ==
    Append(IF Len(old) > 1 THEN SubSeq(old, 1, Len(old) - 1) ELSE old, data)

\* The handler without transcriptionIteration++: every arrival is "the first".
IssueTranscriptionsNoIncrement(blob, n) ==
    [calls |-> Append(calls, [kind |-> "anchor", blob |-> blob, n |-> n,
                              status |-> "pending", text |-> <<>>]),
     transcriptionText |-> firstString,
     transcriptionIteration |-> transcriptionIteration]

\* The transcription part of the handler: the calls it issues and what it
\* assigns synchronously.  Yields the new call log and module variables.
IssueTranscriptions(blob, n) ==
    LET first == transcriptionIteration = 0
        call(kind) == [kind |-> kind, blob |-> blob, n |-> n,
                       status |-> "pending", text |-> <<>>]
        calls1 == IF first THEN Append(calls, call("anchor")) ELSE calls
        text1 == IF first THEN firstString ELSE transcriptionText
        iter1 == IF first THEN transcriptionIteration + 1
                          ELSE transcriptionIteration
        calls2 == IF iter1 > 0 THEN Append(calls1, call("append")) ELSE calls1
    IN  [calls |-> calls2, transcriptionText |-> text1,
         transcriptionIteration |-> iter1]

\* audioBackend.summarize(transcriptionText): the argument is read when the
\* call is made.
IssueSummary(text) == Append(summaries, [text |-> text, status |-> "pending"])

\* A dataavailable event of recorder c: the whole handler.
ChunkArrival(c) ==
    /\ c \in 1..Len(captures)
    /\ captures[c].state = "recording"
    /\ Emitted < MaxChunks
    /\ LET cap == captures[c]
           id == <<cap.src, cap.arr>>
           data == [rec |-> c, src |-> cap.src, k |-> cap.emitted + 1,
                    video |-> cap.video = "live"]
           blob == PushChunk(chunks[id], data)
           out == IssueTranscriptions(blob, Emitted + 1)
       IN  /\ captures' = [captures EXCEPT ![c].emitted = @ + 1]
           /\ chunks' = [chunks EXCEPT ![id] = blob]
           /\ calls' = out.calls
           /\ transcriptionText' = out.transcriptionText
           /\ transcriptionIteration' = out.transcriptionIteration
           /\ summaries' = IssueSummary(out.transcriptionText)
    /\ UNCHANGED <<firstString, mediaRecorder, mediaStream, opens,
                   editorContent, console, uncaught>>

\* ------------------------------------------------------- service completions
\* text => { firstString = text; }
AnchorThen(text) ==
    [firstString |-> text, transcriptionText |-> transcriptionText]

\* The append written as an assignment instead of +=.
AppendThenAssigns(text) ==
    [firstString |-> firstString,
     transcriptionText |-> Trim(Slice(text, Len(firstString)))]

\* text => { transcriptionText += text.slice(firstString.length, text.length).trim(); }
AppendThen(text) ==
    [firstString |-> firstString,
     transcriptionText |->
         transcriptionText \o Trim(Slice(text, Len(firstString)))]

\* A transcribe() promise fulfils with text: its then-callback runs.
TranscribeDone(i, text) ==
    /\ i \in 1..Len(calls)
    /\ calls[i].status = "pending"
    /\ text \in Transcriptions(calls[i].blob)
    /\ LET out == IF calls[i].kind = "anchor" THEN AnchorThen(text)
                                              ELSE AppendThen(text)
       IN  /\ firstString' = out.firstString
           /\ transcriptionText' = out.transcriptionText
    /\ calls' = [calls EXCEPT ![i].status = "done", ![i].text = text]
    /\ UNCHANGED <<transcriptionIteration, mediaRecorder, mediaStream, chunks,
                   opens, captures, summaries, editorContent, console, uncaught>>

\* A rejection handler that throws the transcript away.
RejectedClearsText(kind) ==
    [firstString |-> firstString, transcriptionText |-> <<>>]

\* .then(text => ...) has no rejection callback and no catch follows it: a
\* rejected call of either kind runs nothing.
Rejected(kind) ==
    [firstString |-> firstString, transcriptionText |-> transcriptionText]

\* A transcribe() promise rejects: the then-callback is skipped and the
\* rejection stays unhandled.
TranscribeFail(i) ==
    /\ i \in 1..Len(calls)
    /\ calls[i].status = "pending"
    /\ LET out == Rejected(calls[i].kind)
       IN  /\ firstString' = out.firstString
           /\ transcriptionText' = out.transcriptionText
    /\ calls' = [calls EXCEPT ![i].status = "failed"]
    /\ uncaught' = uncaught \cup {"UnhandledRejection"}
    /\ UNCHANGED <<transcriptionIteration, mediaRecorder, mediaStream, chunks,
                   opens, captures, summaries, editorContent, console>>

\* A callback that keeps the displayed summary unless the new one is longer.
SummaryThenKeepsLonger(summary) ==
    IF Len(summary) > Len(editorContent) THEN summary ELSE editorContent

\* summary => { props.editorRef.current.setContent(summary); }
SummaryThen(summary) == summary

\* A summarize() promise fulfils.
SummarizeDone(j) ==
    /\ j \in 1..Len(summaries)
    /\ summaries[j].status = "pending"
    /\ editorContent' = SummaryThen(SummaryOf(summaries[j].text))
    /\ summaries' = [summaries EXCEPT ![j].status = "done"]
    /\ UNCHANGED <<firstString, transcriptionText, transcriptionIteration,
                   mediaRecorder, mediaStream, chunks, opens, captures, calls,
                   console, uncaught>>

\* A summarize() promise rejects.
SummarizeFail(j) ==
    /\ j \in 1..Len(summaries)
    /\ summaries[j].status = "pending"
    /\ summaries' = [summaries EXCEPT ![j].status = "failed"]
    /\ uncaught' = uncaught \cup {"UnhandledRejection"}
    /\ UNCHANGED <<firstString, transcriptionText, transcriptionIteration,
                   mediaRecorder, mediaStream, chunks, opens, captures, calls,
                   editorContent, console>>

\* ---------------------------------------------------------------- stopAudio
\* recorder.stop() / mediaRecorder.stop()
RecorderStop(cap) == [cap EXCEPT !.state = "inactive"]

\* mediaStream.getTracks().forEach(track => track.stop())
StopTracks(cap) ==
    [cap EXCEPT !.video = StopTrack(@), !.audio = StopTrack(@)]

\* stopAudio without its null checks: dereferencing a null handle throws.
StopAudioUnguarded(mr, ms, w) ==
    IF mr = Null \/ ms = Null
    THEN [w EXCEPT !.uncaught = @ \cup {"TypeError"}]
    ELSE LET w1 == [w EXCEPT !.captures[mr] = RecorderStop(@)]
         IN  [w1 EXCEPT !.captures[ms] = StopTracks(@)]

\* A stopAudio that also aborts the service calls still in flight.
StopAudioCancels(mr, ms, w) ==
    LET abort(q) == [x \in 1..Len(q) |->
                        IF q[x].status = "pending"
                        THEN [q[x] EXCEPT !.status = "failed"] ELSE q[x]]
        w1 == IF mr # Null /\ w.captures[mr].state # "inactive"
              THEN [w EXCEPT !.captures[mr] = RecorderStop(@),
                             !.calls = abort(@), !.summaries = abort(@)]
              ELSE w
    IN  IF ms # Null
        THEN [w1 EXCEPT !.captures[ms] = StopTracks(@)]
        ELSE w1

\* stopAudio with the handles mr, ms of the current render, on the world
\* w = [captures, uncaught, calls, summaries].  Its two console.log messages
\* are fixed strings and are not recorded.
StopAudio(mr, ms, w) ==
    LET w1 == IF mr # Null /\ w.captures[mr].state # "inactive"
              THEN [w EXCEPT !.captures[mr] = RecorderStop(@)]
              ELSE w
    IN  IF ms # Null
        THEN [w1 EXCEPT !.captures[ms] = StopTracks(@)]
        ELSE w1

Now == [captures |-> captures, uncaught |-> uncaught,
        calls |-> calls, summaries |-> summaries]

\* Click on "Stop <captureFrom> Capture".
StopClick(s) ==
    /\ LET w == StopAudio(mediaRecorder[s], mediaStream[s], Now)
       IN  /\ captures' = w.captures
           /\ uncaught' = w.uncaught
           /\ calls' = w.calls
           /\ summaries' = w.summaries
    /\ UNCHANGED <<firstString, transcriptionText, transcriptionIteration,
                   mediaRecorder, mediaStream, chunks, opens, editorContent,
                   console>>

\* track.onended = () => { if (recorder.state !== 'inactive') recorder.stop(); }
OnEnded(cap) == IF cap.state # "inactive" THEN RecorderStop(cap) ELSE cap

\* The shared display stops from outside (native "stop sharing"): the live
\* track of a Desktop stream ends and its onended handler runs.
TrackEnded(c) ==
    /\ c \in 1..Len(captures)
    /\ captures[c].onended
    /\ captures[c].audio = "live"
    /\ captures' = [captures EXCEPT ![c] = OnEnded([@ EXCEPT !.audio = "ended"])]
    /\ UNCHANGED <<firstString, transcriptionText, transcriptionIteration,
                   mediaRecorder, mediaStream, chunks, opens, calls, summaries,
                   editorContent, console, uncaught>>

\* --------------------------------------------------------------------- spec
Next ==
    \/ \E s \in Sources : StartClick(s)
    \/ \E i \in 1..Len(opens) : OpenResolve(i)
    \/ \E i \in 1..Len(opens) : OpenReject(i)
    \/ \E c \in 1..Len(captures) : ChunkArrival(c)
    \/ \E i \in 1..Len(calls) : \E text \in Transcriptions(calls[i].blob) :
           TranscribeDone(i, text)
    \/ \E i \in 1..Len(calls) : TranscribeFail(i)
    \/ \E j \in 1..Len(summaries) : SummarizeDone(j)
    \/ \E j \in 1..Len(summaries) : SummarizeFail(j)
    \/ \E s \in Sources : StopClick(s)
    \/ \E c \in 1..Len(captures) : TrackEnded(c)

Spec == Init /\ [][Next]_vars

\* ------------------------------------------------------------------ helpers
CaptureIds == 1..Len(captures)
CallIds == 1..Len(calls)

CapturesOf(s) == {c \in CaptureIds : captures[c].src = s}

IsPrefix(p, t) == Len(p) <= Len(t) /\ SubSeq(t, 1, Len(p)) = p

\* Every transcription call issued so far has fulfilled.
AllDone == \A i \in CallIds : calls[i].status = "done"

\* The text the service returned for the n-th chunk arrival's blob.
ResultOf(n) ==
    calls[CHOOSE i \in CallIds : calls[i].n = n /\ calls[i].kind = "append"].text

\* -------------------------------------------------------------------- C1
\* C1: after any number of chunk arrivals, every retained chunk buffer holds
\* at most two chunks.
C1_AtMostTwoChunks == \A a \in ArrayIds : Len(chunks[a]) <= 2

\* A recorder has delivered a third chunk into a buffer that holds two.
C1_Witness ==
    \E c \in CaptureIds :
        /\ captures[c].emitted >= 3
        /\ Len(chunks[<<captures[c].src, captures[c].arr>>]) = 2

\* -------------------------------------------------------------------- C2
\* C2: when the results are prefix-stable (the first arrival's text r1 is a
\* prefix of the second arrival's text r2), the transcript after both merges
\* equals r2: "Hello" then "Hello world" gives "Hello world", space included.
C2_PrefixStableMerge ==
    (Emitted = 2 /\ AllDone /\ IsPrefix(ResultOf(1), ResultOf(2)))
        => transcriptionText = ResultOf(2)

\* -------------------------------------------------------------------- C3
\* C3: once every completion triggered by the first chunk arrival has been
\* applied, in any order, accumulatedText equals anchorText, the text the
\* first transcription call returned.
C3_FirstMergeIsAnchor ==
    (Emitted = 1 /\ AllDone)
        => (transcriptionText = firstString /\ firstString = ResultOf(1))

\* -------------------------------------------------------------------- C4
\* A chunk arrival or a transcription completion that belongs to session o.
SessionStep(o) ==
    \/ \E c \in CaptureIds : captures[c].src = o /\ ChunkArrival(c)
    \/ \E i \in CallIds :
           /\ Latest(calls[i].blob).src = o
           /\ \/ \E text \in Transcriptions(calls[i].blob) : TranscribeDone(i, text)
              \/ TranscribeFail(i)

\* C4: the Microphone and the Desktop session share no state: a step of one
\* session leaves the anchorText, accumulatedText and iteration that the
\* other, started session works on unchanged.
C4_SessionsIsolated ==
    [][\A s \in Sources :
          (mediaStream[s] # Null /\ \E o \in Sources \ {s} : SessionStep(o))
              => UNCHANGED transcript]_vars

\* -------------------------------------------------------------------- C5
\* C5: stop() is idempotent: a second stop() leaves recorder and tracks as
\* the first one did, and stop() on an Idle session (no recorder, no stream)
\* changes nothing and raises nothing.
C5_StopIdempotent ==
    \A s \in Sources :
        LET mr == mediaRecorder[s]
            ms == mediaStream[s]
            once == StopAudio(mr, ms, Now)
        IN  /\ StopAudio(mr, ms, once) = once
            /\ (mr = Null /\ ms = Null) => once = Now

\* stop() has acted on a Microphone session: only stopAudio ends its track.
C5_Witness ==
    \E c \in CaptureIds :
        /\ captures[c].src = "Microphone"
        /\ mediaRecorder["Microphone"] = c
        /\ captures[c].state = "inactive"
        /\ captures[c].audio = "ended"

\* -------------------------------------------------------------------- C6
\* C6: for a Desktop session, an external track-ended event has the effect of
\* stop(): recorder and tracks end up as stop() would have left them, and a
\* later stop() changes nothing.
C6_TrackEndedIsStop ==
    [][\A c \in CaptureIds :
          TrackEnded(c) =>
              LET mr == mediaRecorder["Desktop"]
                  ms == mediaStream["Desktop"]
                  after == [captures |-> captures', uncaught |-> uncaught',
                            calls |-> calls', summaries |-> summaries']
              IN  /\ after = StopAudio(mr, ms, Now)
                  /\ StopAudio(mr, ms, after) = after]_vars

\* -------------------------------------------------------------------- C7
\* C7: start() is only valid from Idle: a session instance never gets a second
\* stream or recorder, so it never restarts and never has more than one
\* active recorder.
C7_StartOnlyFromIdle ==
    \A s \in Sources :
        /\ Cardinality(CapturesOf(s)) <= 1
        /\ Cardinality({c \in CapturesOf(s) : captures[c].state = "recording"}) <= 1

\* -------------------------------------------------------------------- C8
\* The session-side state a start() must not touch when the open fails.
SessionState ==
    <<mediaStream, mediaRecorder, captures, chunks, calls, summaries,
      firstString, transcriptionText, transcriptionIteration>>

\* The step in which the i-th getMediaStream() call fails.
OpenFails(i) == opens[i].status = "pending" /\ opens'[i].status = "rejected"

TranscriptionFails(i) ==
    calls[i].status = "pending" /\ calls'[i].status = "failed"

\* C9: a failed transcription call skips its merge and nothing else: the
\* transcript keeps what the successful calls gave it, every recorder keeps
\* delivering chunks and every other call stays as it was, so later merges
\* are still applied.
C9_FailedMergeSkipped ==
    [][\A i \in CallIds :
          TranscriptionFails(i) =>
              /\ UNCHANGED transcript
              /\ UNCHANGED <<captures, chunks, mediaRecorder, mediaStream>>
              /\ \A j \in CallIds \ {i} : calls'[j] = calls[j]]_vars

\* The calls of interval 1 and 3 succeeded, the call of interval 2 failed, and
\* the text of interval 3 is in the transcript.
C9_Witness ==
    /\ Emitted = 3
    /\ \A i \in CallIds :
           calls[i].status = (IF calls[i].n = 2 THEN "failed" ELSE "done")
    /\ Len(transcriptionText) >= Len(Trim(Slice(ResultOf(3), Len(ResultOf(1)))))
    /\ Len(ResultOf(3)) > Len(ResultOf(1))

\* -------------------------------------------------------------------- C10
\* C10: the length of accumulatedText never decreases from one completed
\* merge to the next, whatever the order of completions.
C10_LengthNeverDecreases ==
    [][Len(transcriptionText') >= Len(transcriptionText)]_vars

\* Two merges of different intervals have completed and left text.
C10_Witness ==
    /\ \E i, j \in CallIds :
           /\ calls[i].kind = "append" /\ calls[i].status = "done"
           /\ calls[j].kind = "append" /\ calls[j].status = "done"
           /\ calls[i].n < calls[j].n
    /\ Len(transcriptionText) > Len(firstString)
    /\ firstString # <<>>

\* -------------------------------------------------------------------- C11
\* C11: for a Desktop session every video track of the opened stream is
\* stopped before the recorder exists and before any chunk is buffered, so no
\* buffered chunk and no blob given to the transcription service was recorded
\* from a live video track.
C11_NoVideoInBlobs ==
    /\ \A c \in CaptureIds :
           captures[c].src = "Desktop" => captures[c].video = "ended"
    /\ \A a \in ArrayIds : \A x \in 1..Len(chunks[a]) : ~chunks[a][x].video
    /\ \A i \in CallIds :
           \A x \in 1..Len(calls[i].blob) : ~calls[i].blob[x].video

\* A blob recorded by a Desktop recorder has been given to the service.
C11_Witness ==
    \E i \in CallIds :
        /\ Latest(calls[i].blob).src = "Desktop"
        /\ captures[Latest(calls[i].blob).rec].video = "ended"

\* -------------------------------------------------------------------- C12
\* C12: in every reachable state accumulatedText begins with anchorText, and
\* once a chunk has been merged iteration >= 1.
C12_TextBeginsWithAnchor ==
    /\ IsPrefix(firstString, transcriptionText)
    /\ Emitted >= 1 => transcriptionIteration >= 1

\* -------------------------------------------------------------------- C13
\* The step in which the i-th call, an append, fulfils.
AppendCompletes(i) ==
    /\ calls[i].kind = "append"
    /\ calls[i].status = "pending"
    /\ calls'[i].status = "done"

\* C13: whatever the completion order, every append is computed against the
\* anchor that the first transcription call returned: that call has completed
\* and the appended text is the trimmed result[len(anchorText):].
C13_AppendAgainstAnchor ==
    [][\A i \in CallIds :
          AppendCompletes(i) =>
              \E a \in CallIds :
                  /\ calls[a].kind = "anchor"
                  /\ calls[a].status = "done"
                  /\ transcriptionText' =
                         transcriptionText \o
                             Trim(Slice(calls'[i].text, Len(calls[a].text)))]_vars

\* -------------------------------------------------------------------- C14
\* C14: after every completed merge the summarization service is invoked with
\* the full accumulatedText as that merge left it.
C14_SummaryAfterMerge ==
    [][\A i \in CallIds :
          AppendCompletes(i) =>
              /\ Len(summaries') = Len(summaries) + 1
              /\ summaries'[Len(summaries')].text = transcriptionText']_vars

\* -------------------------------------------------------------------- C15
\* C15: each chunk arrival, the first one included, has triggered exactly one
\* call to the transcription service.
C15_OneCallPerArrival ==
    \A n \in 1..Emitted : Cardinality({i \in CallIds : calls[i].n = n}) = 1

\* -------------------------------------------------------------------- C16
\* C16: once a buffer has its first chunk, the header, no later arrival
\* changes or removes it; an arrival puts its chunk in as latest, replacing
\* the previous latest, and the combined blob given to the service is the
\* header followed by that newest chunk (the header alone on the first
\* arrival).
C16_HeaderFixedLatestReplaced ==
    [][\A a \in ArrayIds :
          /\ chunks[a] # <<>> =>
                 (chunks'[a] # <<>> /\ chunks'[a][1] = chunks[a][1])
          /\ chunks'[a] # chunks[a] =>
                 LET newest == chunks'[a][Len(chunks'[a])]
                 IN  /\ \A x \in 1..Len(chunks[a]) : chunks[a][x] # newest
                     /\ chunks'[a] = IF chunks[a] = <<>>
                                     THEN <<newest>>
                                     ELSE <<chunks[a][1], newest>>
                     /\ calls'[Len(calls')].blob = chunks'[a]]_vars

\* A recorder's third chunk sits behind the header, its second one is gone.
C16_Witness ==
    \E a \in ArrayIds :
        /\ Len(chunks[a]) = 2
        /\ chunks[a][1].k = 1
        /\ chunks[a][2].k = 3
        /\ chunks[a][1].rec = chunks[a][2].rec

\* -------------------------------------------------------------------- C17
\* C17: every summarization completion is pushed to the editor, whatever is
\* displayed and whichever calls completed before: the displayed summary is
\* the one of the call that completed last, also when that call was issued
\* earlier, from older text, than one that has already completed.  A failed
\* call leaves the display alone.
C17_LastCompletionWins ==
    [][\A j \in 1..Len(summaries) :
          /\ (summaries[j].status = "pending" /\ summaries'[j].status = "done")
                 => editorContent' = SummaryOf(summaries[j].text)
          /\ (summaries[j].status = "pending" /\ summaries'[j].status = "failed")
                 => editorContent' = editorContent]_vars

\* The summary of an older text is displayed although the summary of a newer
\* text has completed: the older call completed last.
C17_Witness ==
    \E j, k \in 1..Len(summaries) :
        /\ j < k
        /\ summaries[j].status = "done"
        /\ summaries[k].status = "done"
        /\ Len(summaries[j].text) < Len(summaries[k].text)
        /\ \A m \in 1..Len(summaries) :
               m # j => summaries[m].text # summaries[j].text
        /\ editorContent = SummaryOf(summaries[j].text)

\* -------------------------------------------------------------------- C18
\* Every recorder is inactive: nothing is being recorded any more.
AllStopped ==
    /\ captures # <<>>
    /\ \A c \in CaptureIds : captures[c].state = "inactive"

\* C18: stopping cancels nothing.  The step that makes a recorder inactive
\* leaves every service call as it was; a call still pending can complete in
\* any state; and a completion that arrives when all recording has stopped is
\* applied as at any other time: the anchor is stored, the suffix appended,
\* the summary displayed.
C18_InFlightSurviveStop ==
    /\ [](\A i \in CallIds :
             calls[i].status = "pending" =>
                 \A text \in Transcriptions(calls[i].blob) :
                     ENABLED TranscribeDone(i, text))
    /\ [](\A j \in 1..Len(summaries) :
             summaries[j].status = "pending" => ENABLED SummarizeDone(j))
    /\ [][/\ (\E c \in CaptureIds : captures[c].state = "recording"
                                    /\ captures'[c].state = "inactive")
                 => (calls' = calls /\ summaries' = summaries)
          /\ \A i \in CallIds :
                 (AllStopped /\ calls[i].status = "pending"
                             /\ calls'[i].status = "done") =>
                     /\ calls'[i].text \in Transcriptions(calls[i].blob)
                     /\ calls[i].kind = "anchor" =>
                            /\ firstString' = calls'[i].text
                            /\ transcriptionText' = transcriptionText
                     /\ calls[i].kind = "append" =>
                            /\ firstString' = firstString
                            /\ transcriptionText' = transcriptionText \o
                                   Trim(Slice(calls'[i].text, Len(firstString)))
          /\ \A j \in 1..Len(summaries) :
                 (AllStopped /\ summaries[j].status = "pending"
                             /\ summaries'[j].status = "done") =>
                     editorContent' = SummaryOf(summaries[j].text)]_vars

\* stop() has ended a Microphone session while a transcription and a
\* summarization request of it were in flight.
C18_Witness ==
    /\ AllStopped
    /\ \E i \in CallIds :
           /\ calls[i].status = "pending"
           /\ captures[Latest(calls[i].blob).rec].src = "Microphone"
           /\ captures[Latest(calls[i].blob).rec].audio = "ended"
    /\ \E j \in 1..Len(summaries) : summaries[j].status = "pending"

\* -------------------------------------------------------------------- C19
\* C19: firstString is assigned at most once per process: the only step that
\* changes it is the completion of the one call issued while iteration was 0,
\* on the first chunk arrival, and there is never a second such call.
C19_AnchorAssignedOnce ==
    [][/\ Cardinality({i \in 1..Len(calls') : calls'[i].kind = "anchor"}) <= 1
       /\ firstString' # firstString =>
              /\ firstString = <<>>
              /\ \E i \in CallIds :
                     /\ calls[i].kind = "anchor"
                     /\ calls[i].n = 1
                     /\ calls[i].status = "pending"
                     /\ calls'[i].status = "done"]_vars

\* The anchor is set, and more chunks, completions, a stop and a second start
\* have followed.
C19_Witness ==
    /\ firstString # <<>>
    /\ Emitted >= 2
    /\ AllDone
    /\ Len(captures) >= 2
    /\ \E c \in CaptureIds : captures[c].state = "inactive"

====
